---- MODULE Spec2Model ----
(***************************************************************************)
(* A model of the VSModNavigator extension (src/src/extension.ts): the     *)
(* cross-reference resolver (resolveVintageStoryPath), the domain          *)
(* existence check (checkDomainExists), the pointer walk of                *)
(* resolvePathDefinition and the hover / definition providers.             *)
(*                                                                         *)
(* Strings are sequences of one-character strings, so that split,          *)
(* startsWith, parseInt and encodeURIComponent are computed character by   *)
(* character.  A path below <dir>/assets is a sequence of segment names.   *)
(***************************************************************************)
EXTENDS Integers, Sequences, FiniteSets, TLC

VARIABLES workspaceFolders, document, pc, result

vars == <<workspaceFolders, document, pc, result>>

(***************************************************************************)
(* Bounds of the model.                                                    *)
(***************************************************************************)
\* directories (workspace folders plus listed children) in a workspace
MaxDirs == 3
\* characters of a cross-reference token, when all tokens are enumerated
MaxTokenLen == 4
\* characters of a "path" pointer string
MaxPointerLen == 3

(***************************************************************************)
(* Strings.                                                                *)
(***************************************************************************)
RECURSIVE StringsUpTo(_, _)
StringsUpTo(chars, n) ==
    IF n = 0 THEN {<<>>}
    ELSE LET shorter == StringsUpTo(chars, n - 1)
         IN  shorter \cup {Append(s, c) : s \in shorter, c \in chars}

\* String.prototype.split with a one-character separator: "" splits to <<"">>
RECURSIVE SplitFrom(_, _, _)
SplitFrom(s, sep, cur) ==
    IF s = <<>> THEN <<cur>>
    ELSE IF Head(s) = sep
         THEN <<cur>> \o SplitFrom(Tail(s), sep, <<>>)
         ELSE SplitFrom(Tail(s), sep, Append(cur, Head(s)))

Split(s, sep) == SplitFrom(s, sep, <<>>)

\* Array.prototype.filter(p => p.length > 0)
RECURSIVE FilterNonEmpty(_)
FilterNonEmpty(parts) ==
    IF parts = <<>> THEN <<>>
    ELSE IF Len(Head(parts)) > 0
         THEN <<Head(parts)>> \o FilterNonEmpty(Tail(parts))
         ELSE FilterNonEmpty(Tail(parts))

\* String.prototype.startsWith
StartsWith(s, prefix) ==
    /\ Len(s) >= Len(prefix)
    /\ SubSeq(s, 1, Len(prefix)) = prefix

\* String.prototype.includes for one character
Includes(s, c) == \E i \in 1..Len(s) : s[i] = c

CountChar(s, c) == Cardinality({i \in 1..Len(s) : s[i] = c})

(***************************************************************************)
(* JSON texts, as the values they hold.  EmptyText is a text with no JSON  *)
(* value in it: jsonc.parseTree returns undefined for it.                  *)
(***************************************************************************)
JString(s) == [t |-> "string", s |-> s]
JNumber == [t |-> "number"]
JArray(items) == [t |-> "array", items |-> items]
\* props: a sequence of [key |-> string, val |-> value]; NoValue for `{"k"}`
JObject(props) == [t |-> "object", props |-> props]
NoValue == [t |-> "novalue"]
EmptyText == [t |-> "empty"]

(***************************************************************************)
(* The disk.  A directory's `assets` is a function from the paths that     *)
(* exist below <dir>/assets (<<>> is <dir>/assets itself) to what is       *)
(* there: a directory, or a regular file with its text.                    *)
(***************************************************************************)
Dir == [kind |-> "dir"]
File(text) == [kind |-> "file", text |-> text]

NoAssets == [p \in {} |-> Dir]
\* <dir>/assets/f/
DomainDir == (<<>> :> Dir) @@ (<< <<"f">> >> :> Dir)
\* <dir>/assets/f/x holding `text`
WithFile(text) == DomainDir @@ (<< <<"f">>, <<"x">> >> :> File(text))

Undefined == [kind |-> "undefined"]
\* an exception on its way up the stack
Thrown == [kind |-> "throw"]

\* path.join(<dir>, 'assets', domain, relativePath): the segments below
\* <dir>/assets.  path.join normalises the joined string: empty segments
\* go, a trailing separator stays.  (The alphabets hold no '.', so no '.'
\* or '..' segment arises.)
PathSegments(s) == FilterNonEmpty(Split(s, "/"))

PathJoin(domain, relativePath) ==
    LET joined == domain \o <<"/">> \o relativePath
    IN  [segs |-> PathSegments(joined),
         slash |-> IF relativePath /= <<>>
                   THEN relativePath[Len(relativePath)] = "/"
                   ELSE domain /= <<>> /\ domain[Len(domain)] = "/"]

\* fs.existsSync: true for a file and for a directory alike; a path with a
\* trailing separator names a directory only
ExistsSync(assets, p) ==
    /\ p.segs \in DOMAIN assets
    /\ p.slash => assets[p.segs].kind = "dir"

\* vscode.Uri.file(potentialPath); child = 0 is the workspace folder itself
Uri(folder, child, p) ==
    [kind |-> "uri", folder |-> folder, child |-> child, segs |-> p.segs, slash |-> p.slash]

\* vscode.workspace.fs.readDirectory(folder.uri): the listing, or an exception
ReadDirectory(folder) ==
    IF folder.readable
    THEN [kind |-> "listing", entries |-> folder.children]
    ELSE Thrown

(***************************************************************************)
(* resolveVintageStoryPath                                                 *)
(***************************************************************************)
isMatchingFolder(name, domain) ==
    \/ name = domain
    \/ StartsWith(name, domain \o <<"_">>)
    \/ StartsWith(name, domain \o <<"-">>)

\* Strategy 2 of one folder: the loop over the listing, from entry j on
RECURSIVE ResolveChildren(_, _, _, _, _)
ResolveChildren(i, entries, j, domain, relativePath) ==
    IF j > Len(entries) THEN Undefined
    ELSE IF /\ entries[j].type = "Directory"
            /\ isMatchingFolder(entries[j].name, domain)
            /\ ExistsSync(entries[j].assets, PathJoin(domain, relativePath))
         THEN Uri(i, j, PathJoin(domain, relativePath))
         ELSE ResolveChildren(i, entries, j + 1, domain, relativePath)

\* a strategy 1 that tests <dir>/assets/<domain> only, as checkDomainExists
\* does, and answers with the candidate path untested
ResolveOwnUntested(folders, i, domain, relativePath) ==
    IF /\ isMatchingFolder(folders[i].name, domain)
       /\ ExistsSync(folders[i].assets, PathJoin(domain, <<>>))
    THEN Uri(i, 0, PathJoin(domain, relativePath))
    ELSE Undefined

\* Strategy 1 of one folder
ResolveOwn(folders, i, domain, relativePath) ==
    IF /\ isMatchingFolder(folders[i].name, domain)
       /\ ExistsSync(folders[i].assets, PathJoin(domain, relativePath))
    THEN Uri(i, 0, PathJoin(domain, relativePath))
    ELSE Undefined

\* the try block of strategy 2; the catch logs and goes on
ResolveListed(folders, i, domain, relativePath) ==
    LET children == ReadDirectory(folders[i])
    IN  IF children = Thrown THEN Undefined
        ELSE ResolveChildren(i, children.entries, 1, domain, relativePath)

\* two passes: every folder's own name first, the listings after
RECURSIVE FirstOwn(_, _, _, _), FirstListed(_, _, _, _)
FirstOwn(folders, i, domain, relativePath) ==
    IF i > Len(folders) THEN Undefined
    ELSE IF ResolveOwn(folders, i, domain, relativePath) /= Undefined
         THEN ResolveOwn(folders, i, domain, relativePath)
         ELSE FirstOwn(folders, i + 1, domain, relativePath)

FirstListed(folders, i, domain, relativePath) ==
    IF i > Len(folders) THEN Undefined
    ELSE IF ResolveListed(folders, i, domain, relativePath) /= Undefined
         THEN ResolveListed(folders, i, domain, relativePath)
         ELSE FirstListed(folders, i + 1, domain, relativePath)

ResolveFoldersTwoPasses(folders, i, domain, relativePath) ==
    IF FirstOwn(folders, i, domain, relativePath) /= Undefined
    THEN FirstOwn(folders, i, domain, relativePath)
    ELSE FirstListed(folders, i, domain, relativePath)

\* the loop over vscode.workspace.workspaceFolders, from folder i on
RECURSIVE ResolveFolders(_, _, _, _)
ResolveFolders(folders, i, domain, relativePath) ==
    IF i > Len(folders) THEN Undefined
    ELSE LET own == ResolveOwn(folders, i, domain, relativePath)
             sub == ResolveListed(folders, i, domain, relativePath)
         IN  IF own /= Undefined THEN own
             ELSE IF sub /= Undefined THEN sub
             ELSE ResolveFolders(folders, i + 1, domain, relativePath)

\* a check that lets a token of three parts through
NotTwoPartsAtLeast(parts) == Len(parts) < 2

\* parts.length !== 2
NotTwoParts(parts) == Len(parts) /= 2

\* workspaceFolders = <<>> stands for `undefined` (no folder open)
resolveVintageStoryPath(folders, pathStr) ==
    LET parts == Split(pathStr, ":")
    IN  IF NotTwoParts(parts) THEN Undefined
        ELSE IF folders = <<>> THEN Undefined
        ELSE ResolveFolders(folders, 1, parts[1], parts[2])

(***************************************************************************)
(* checkDomainExists                                                       *)
(***************************************************************************)
DomainPath(domain) == PathJoin(domain, <<>>)

RECURSIVE ExistsInChildren(_, _, _)
ExistsInChildren(entries, j, domain) ==
    IF j > Len(entries) THEN FALSE
    ELSE IF /\ entries[j].type = "Directory"
            /\ isMatchingFolder(entries[j].name, domain)
            /\ ExistsSync(entries[j].assets, DomainPath(domain))
         THEN TRUE
         ELSE ExistsInChildren(entries, j + 1, domain)

\* a check of the folder's name alone
ExistsOwnByName(folder, domain) == isMatchingFolder(folder.name, domain)

ExistsOwn(folder, domain) ==
    /\ isMatchingFolder(folder.name, domain)
    /\ ExistsSync(folder.assets, DomainPath(domain))

ExistsListed(folder, domain) ==
    LET children == ReadDirectory(folder)
    IN  IF children = Thrown THEN FALSE
        ELSE ExistsInChildren(children.entries, 1, domain)

RECURSIVE ExistsInFolders(_, _, _)
ExistsInFolders(folders, i, domain) ==
    IF i > Len(folders) THEN FALSE
    ELSE IF ExistsOwn(folders[i], domain) THEN TRUE
    ELSE IF ExistsListed(folders[i], domain) THEN TRUE
    ELSE ExistsInFolders(folders, i + 1, domain)

checkDomainExists(folders, domain) ==
    IF folders = <<>> THEN FALSE
    ELSE ExistsInFolders(folders, 1, domain)

(***************************************************************************)
(* jsonc.parseTree on the compact text of a value (no white space, no      *)
(* comments): every node has its offset and length in the text.  A         *)
(* property node spans its key to the end of its value and has the key     *)
(* node and, when the text gives one, the value node as children.  A node  *)
(* is named by the indexes that lead to it from the root, so that its      *)
(* parent is the path without its last index.                              *)
(***************************************************************************)
RECURSIVE TextLen(_), ItemsLen(_), PropsLen(_)
PropLen(p) == Len(p.key) + 2 + (IF p.val = NoValue THEN 0 ELSE 1 + TextLen(p.val))

ItemsLen(items) ==
    IF items = <<>> THEN 0
    ELSE TextLen(Head(items)) + (IF Len(items) > 1 THEN 1 ELSE 0) + ItemsLen(Tail(items))

PropsLen(props) ==
    IF props = <<>> THEN 0
    ELSE PropLen(Head(props)) + (IF Len(props) > 1 THEN 1 ELSE 0) + PropsLen(Tail(props))

TextLen(v) ==
    CASE v.t = "string" -> Len(v.s) + 2
      [] v.t = "number" -> 1
      [] v.t = "array"  -> 2 + ItemsLen(v.items)
      [] v.t = "object" -> 2 + PropsLen(v.props)
      [] OTHER          -> 0

StringNode(s, off) ==
    [type |-> "string", offset |-> off, length |-> Len(s) + 2, value |-> s,
     children |-> <<>>]

RECURSIVE Node(_, _), ArrayChildren(_, _), ObjectChildren(_, _)
PropertyNode(p, off) ==
    [type |-> "property", offset |-> off, length |-> PropLen(p), value |-> <<>>,
     children |-> IF p.val = NoValue
                  THEN <<StringNode(p.key, off)>>
                  ELSE <<StringNode(p.key, off), Node(p.val, off + Len(p.key) + 3)>>]

ArrayChildren(items, off) ==
    IF items = <<>> THEN <<>>
    ELSE <<Node(Head(items), off)>>
         \o ArrayChildren(Tail(items), off + TextLen(Head(items)) + 1)

ObjectChildren(props, off) ==
    IF props = <<>> THEN <<>>
    ELSE <<PropertyNode(Head(props), off)>>
         \o ObjectChildren(Tail(props), off + PropLen(Head(props)) + 1)

Node(v, off) ==
    CASE v.t = "string" -> StringNode(v.s, off)
      [] v.t = "number" ->
           [type |-> "number", offset |-> off, length |-> 1, value |-> <<>>,
            children |-> <<>>]
      [] v.t = "array" ->
           [type |-> "array", offset |-> off, length |-> TextLen(v), value |-> <<>>,
            children |-> ArrayChildren(v.items, off + 1)]
      [] v.t = "object" ->
           [type |-> "object", offset |-> off, length |-> TextLen(v), value |-> <<>>,
            children |-> ObjectChildren(v.props, off + 1)]

\* undefined for a text with no value in it
ParseTree(text) == IF text = EmptyText THEN Undefined ELSE Node(text, 0)

RECURSIVE NodeAt(_, _)
NodeAt(tree, path) ==
    IF path = <<>> THEN tree ELSE NodeAt(tree.children[Head(path)], Tail(path))

\* jsonc's contains(node, offset), right bound excluded
Contains(node, offset) ==
    offset >= node.offset /\ offset < node.offset + node.length

NotFound == [found |-> FALSE]

\* jsonc.findNodeAtOffset: the innermost node holding the offset
RECURSIVE FindNodeAtOffset(_, _, _)
FindNodeAtOffset(tree, path, offset) ==
    LET node == NodeAt(tree, path)
        inner == {i \in 1..Len(node.children) :
                    /\ \A k \in 1..i : node.children[k].offset <= offset
                    /\ FindNodeAtOffset(tree, Append(path, i), offset) /= NotFound}
    IN  IF ~Contains(node, offset) THEN NotFound
        ELSE IF inner /= {}
             THEN FindNodeAtOffset(tree, Append(path, CHOOSE i \in inner :
                                                  \A k \in inner : i <= k), offset)
             ELSE [found |-> TRUE, path |-> path]

Parent(path) == SubSeq(path, 1, Len(path) - 1)

(***************************************************************************)
(* findProperty and the pointer walk of resolvePathDefinition              *)
(***************************************************************************)
RECURSIVE FindPropertyFrom(_, _, _)
FindPropertyFrom(children, i, key) ==
    IF i > Len(children) THEN Undefined
    ELSE IF /\ children[i].type = "property"
            /\ Len(children[i].children) > 0
            /\ children[i].children[1].value = key
         THEN children[i]
         ELSE FindPropertyFrom(children, i + 1, key)

findProperty(node, key) ==
    IF node.type /= "object" THEN Undefined
    ELSE FindPropertyFrom(node.children, 1, key)

Digits == <<"0", "1", "2", "3", "4", "5", "6", "7", "8", "9">>
IsDigit(c) == \E d \in 1..10 : Digits[d] = c
DigitValue(c) == (CHOOSE d \in 1..10 : Digits[d] = c) - 1

NaN == [nan |-> TRUE]

\* parseInt(part): the value of the leading digits, NaN when there is none
\* (the alphabets hold no white space, sign or radix prefix)
RECURSIVE ParseDigits(_, _)
ParseDigits(s, acc) ==
    IF s = <<>> \/ ~IsDigit(Head(s)) THEN acc
    ELSE ParseDigits(Tail(s), 10 * acc + DigitValue(Head(s)))

ParseInt(s) ==
    IF s = <<>> \/ ~IsDigit(Head(s)) THEN NaN
    ELSE [nan |-> FALSE, value |-> ParseDigits(s, 0)]

\* the array branch of the loop body
ArrayStep(currentNode, part) ==
    LET index == ParseInt(part)
    IN  IF index /= NaN /\ index.value < Len(currentNode.children)
        THEN currentNode.children[index.value + 1]
        ELSE Undefined

\* the walk moves to the property's value and stays there
PropertyTargetValue(property) ==
    IF Len(property.children) >= 2 THEN property.children[2]
    ELSE property.children[1]

\* the node a matched property moves the walk to: its value, then, when the
\* property has a key node, the key node instead
PropertyTarget(property) ==
    LET valueNode == IF Len(property.children) >= 2
                     THEN property.children[2] ELSE Undefined
    IN  IF Len(property.children) >= 1 THEN property.children[1] ELSE valueNode

\* the object branch of the loop body
ObjectStep(currentNode, part) ==
    LET property == findProperty(currentNode, part)
    IN  IF property /= Undefined THEN PropertyTarget(property) ELSE Undefined

\* a loop body without its last branch: a scalar is left as it is
WalkStepKeepsScalar(currentNode, part) ==
    IF currentNode.type = "array" THEN ArrayStep(currentNode, part)
    ELSE IF currentNode.type = "object" THEN ObjectStep(currentNode, part)
    ELSE currentNode

\* one turn of the loop
WalkStep(currentNode, part) ==
    IF currentNode.type = "array" THEN ArrayStep(currentNode, part)
    ELSE IF currentNode.type = "object" THEN ObjectStep(currentNode, part)
    ELSE Undefined

\* for (const part of pathParts) { if (!currentNode) break; ... }
RECURSIVE Walk(_, _)
Walk(currentNode, pathParts) ==
    IF pathParts = <<>> \/ currentNode = Undefined THEN currentNode
    ELSE Walk(WalkStep(currentNode, Head(pathParts)), Tail(pathParts))

PointerParts(jsonPointer) == FilterNonEmpty(Split(jsonPointer, "/"))

(***************************************************************************)
(* provideDefinition                                                       *)
(***************************************************************************)
\* a location in the file at `uri`; offsets stand for the positions
\* doc.positionAt gives them
Location(uri, start, end) ==
    [kind |-> "location", uri |-> uri, start |-> start, end |-> end]

\* new vscode.Location(targetUri, new vscode.Position(0, 0))
TopOfFile(uri) == Location(uri, 0, 0)

\* the directory a resolved uri lies in
UriDir(folders, uri) ==
    IF uri.child = 0 THEN folders[uri.folder]
    ELSE folders[uri.folder].children[uri.child]

\* vscode.workspace.openTextDocument(uri).getText(): the text of a regular
\* file; a directory cannot be opened
OpenTextDocument(folders, uri) ==
    LET entry == UriDir(folders, uri).assets[uri.segs]
    IN  IF entry.kind = "file" /\ ~uri.slash THEN entry.text ELSE Thrown

resolveFileDefinition(folders, fileString) ==
    LET targetUri == resolveVintageStoryPath(folders, fileString)
    IN  IF targetUri /= Undefined THEN TopOfFile(targetUri) ELSE Undefined

\* a walk that fails gives no location
LocateInTargetOrNothing(targetUri, text, jsonPointer) ==
    LET tree == ParseTree(text)
        currentNode == Walk(tree, PointerParts(jsonPointer))
    IN  IF tree = Undefined THEN TopOfFile(targetUri)
        ELSE IF currentNode /= Undefined
             THEN Location(targetUri, currentNode.offset,
                           currentNode.offset + currentNode.length)
             ELSE Undefined

\* a target without a tree gives no location
LocateInTargetTreeOnly(targetUri, text, jsonPointer) ==
    LET tree == ParseTree(text)
        currentNode == Walk(tree, PointerParts(jsonPointer))
    IN  IF tree = Undefined THEN Undefined
        ELSE IF currentNode /= Undefined
             THEN Location(targetUri, currentNode.offset,
                           currentNode.offset + currentNode.length)
             ELSE TopOfFile(targetUri)

\* steps 2 and 3: the target's tree and the walk
LocateInTarget(targetUri, text, jsonPointer) ==
    LET tree == ParseTree(text)
        currentNode == Walk(tree, PointerParts(jsonPointer))
    IN  IF tree = Undefined THEN TopOfFile(targetUri)
        ELSE IF currentNode /= Undefined
             THEN Location(targetUri, currentNode.offset,
                           currentNode.offset + currentNode.length)
             ELSE TopOfFile(targetUri)

\* pathNode is given by its path in the document's tree
resolvePathDefinition(folders, docTree, pathNode, jsonPointer) ==
    LET parent == NodeAt(docTree, Parent(Parent(pathNode)))
        fileProperty == findProperty(parent, <<"f", "i", "l", "e">>)
        fileValueNode == IF Len(fileProperty.children) >= 2
                         THEN fileProperty.children[2] ELSE Undefined
        targetUri == resolveVintageStoryPath(folders, fileValueNode.value)
        text == OpenTextDocument(folders, targetUri)
    IN  IF Len(pathNode) < 2 \/ parent.type /= "object" THEN Undefined
        ELSE IF fileProperty = Undefined THEN Undefined
        ELSE IF fileValueNode = Undefined \/ fileValueNode.type /= "string" THEN Undefined
        ELSE IF targetUri = Undefined THEN Undefined
        ELSE IF text = Thrown THEN Undefined
        ELSE LocateInTarget(targetUri, text, jsonPointer)

provideDefinition(folders, text, offset) ==
    LET tree == ParseTree(text)
        found == FindNodeAtOffset(tree, <<>>, offset)
        node == NodeAt(tree, found.path)
        property == NodeAt(tree, Parent(found.path))
        keyNode == property.children[1]
        valueNode == property.children[2]
    IN  IF tree = Undefined THEN Undefined
        ELSE IF found = NotFound \/ node.type /= "string" THEN Undefined
        ELSE IF found.path = <<>> \/ property.type /= "property" THEN Undefined
        ELSE IF keyNode.type /= "string" THEN Undefined
        ELSE IF Len(property.children) < 2 \/ valueNode.type /= "string" THEN Undefined
        ELSE IF keyNode.value = <<"f", "i", "l", "e">>
             THEN resolveFileDefinition(folders, valueNode.value)
        ELSE IF keyNode.value = <<"p", "a", "t", "h">>
             THEN resolvePathDefinition(folders, tree, Append(Parent(found.path), 2),
                                        valueNode.value)
        ELSE Undefined

(***************************************************************************)
(* provideHover                                                            *)
(***************************************************************************)
\* JSON.stringify of a string: quoted, with '"' and '\' escaped
RECURSIVE JsonEscape(_)
JsonEscape(s) ==
    IF s = <<>> THEN <<>>
    ELSE (IF Head(s) \in {"\"", "\\"} THEN <<"\\", Head(s)>> ELSE <<Head(s)>>)
         \o JsonEscape(Tail(s))

\* JSON.stringify([domain])
JsonStringifyArgs(domain) == <<"[", "\"">> \o JsonEscape(domain) \o <<"\"", "]">>

\* the characters encodeURIComponent escapes, with their codes
PercentCodes ==
    ("/" :> <<"%", "2", "F">>) @@ (":" :> <<"%", "3", "A">>)
    @@ ("[" :> <<"%", "5", "B">>) @@ ("]" :> <<"%", "5", "D">>)
    @@ ("\"" :> <<"%", "2", "2">>) @@ ("\\" :> <<"%", "5", "C">>)
    @@ ("%" :> <<"%", "2", "5">>)

RECURSIVE EncodeURIComponent(_)
EncodeURIComponent(s) ==
    IF s = <<>> THEN <<>>
    ELSE (IF Head(s) \in DOMAIN PercentCodes THEN PercentCodes[Head(s)] ELSE <<Head(s)>>)
         \o EncodeURIComponent(Tail(s))

DownloadCommand == "vs-mod-navigator.downloadMod"

\* new vscode.Hover(md): the mod the message names and the command link
\* [Download Mod](command:<command>?<args>)
Hover(domain) ==
    [kind |-> "hover", mod |-> domain, command |-> DownloadCommand,
     args |-> EncodeURIComponent(JsonStringifyArgs(domain))]

\* a test for a ':' alone
LooksLikePathAnyParts(value) == Includes(value, ":")

\* value.includes(':') and parts.length === 2
LooksLikePath(value) == Includes(value, ":") /\ Len(Split(value, ":")) = 2

provideHover(folders, text, offset) ==
    LET tree == ParseTree(text)
        found == FindNodeAtOffset(tree, <<>>, offset)
        node == NodeAt(tree, found.path)
        domain == Split(node.value, ":")[1]
    IN  IF tree = Undefined THEN Undefined
        ELSE IF found = NotFound \/ node.type /= "string" THEN Undefined
        ELSE IF LooksLikePath(node.value) /\ ~checkDomainExists(folders, domain)
             THEN Hover(domain)
        ELSE Undefined

(***************************************************************************)
(* The workspaces and inputs of the resolver's specification.              *)
(***************************************************************************)
SampleText == JArray(<<JNumber>>)

\* names that equal the domain f, extend it by '_' or '-', or only start
\* with it
FolderNames == {<<"f">>, <<"f", "_", "1">>}
ChildNames == {<<"f", "-", "1">>, <<"f", "x">>}
Trees == {NoAssets, DomainDir, WithFile(SampleText)}

\* a listed entry, with the vscode.FileType the listing gives it: a
\* directory with what its assets hold, a regular file, or a symbolic link
\* to a directory (SymbolicLink | Directory)
Children ==
    [name : ChildNames, type : {"Directory"}, assets : Trees]
    \cup [name : ChildNames, type : {"File"}, assets : {NoAssets}]
    \cup [name : ChildNames, type : {"SymbolicLinkDirectory"},
          assets : {WithFile(SampleText)}]

\* the listings of at most n entries
RECURSIVE Listings(_)
Listings(n) ==
    IF n <= 0 THEN {<<>>}
    ELSE LET shorter == Listings(n - 1)
         IN  shorter \cup
             {Append(l, c) : l \in shorter, c \in Children}

\* a directory holds no name twice
DistinctNames(l) == \A a, b \in 1..Len(l) : a /= b => l[a].name /= l[b].name

\* the folders of at most MaxDirs directories; a listing that cannot be read
\* only differs from one that can when there are entries
Folders ==
    {f \in [name : FolderNames, readable : BOOLEAN, assets : Trees,
            children : {l \in Listings(MaxDirs - 1) : DistinctNames(l)}] :
        f.children = <<>> => f.readable}

\* the folders, by the number of directories each one is
FoldersBySize == [k \in 1..MaxDirs |-> {f \in Folders : 1 + Len(f.children) = k}]

\* the directories of a workspace
RECURSIVE Size(_)
Size(folders) ==
    IF folders = <<>> THEN 0
    ELSE 1 + Len(Head(folders).children) + Size(Tail(folders))

\* tokens with no, one and two ':', with domains that match a name exactly,
\* by suffix, as a bare prefix, or not at all, and relative paths that name
\* a file, a directory, nothing, or end in a separator
Tokens ==
    {<<>>, <<"f">>, <<":">>, <<"f", ":">>, <<"f", ":", "x">>,
     <<"f", ":", "/", "x">>, <<"f", ":", "x", "/">>, <<"x", ":", "x">>,
     <<"f", "x", ":", "x">>, <<":", "f">>, <<"f", "/", ":", "x">>,
     <<"f", ":", "x", ":">>, <<"f", ":", ":">>}

Domains == {Split(t, ":")[1] : t \in Tokens}

(***************************************************************************)
(* The specification of the resolver: folders are added to the workspace,  *)
(* and resolveVintageStoryPath and checkDomainExists are called, one call  *)
(* at a time.                                                              *)
(***************************************************************************)
NoResult == [op |-> "none"]

\* no folder is open
Init ==
    /\ workspaceFolders = <<>>
    /\ document = EmptyText
    /\ pc = "idle"
    /\ result = NoResult

\* the user adds a folder to the workspace, between two requests
AddFolder ==
    /\ pc = "idle"
    /\ \E k \in 1..(MaxDirs - Size(workspaceFolders)) :
         \E f \in FoldersBySize[k] :
             workspaceFolders' = Append(workspaceFolders, f)
    /\ UNCHANGED <<document, pc, result>>

Resolve ==
    /\ pc = "idle"
    /\ \E pathStr \in Tokens :
         result' = [op |-> "resolveVintageStoryPath", input |-> pathStr,
                    value |-> resolveVintageStoryPath(workspaceFolders, pathStr)]
    /\ pc' = "done"
    /\ UNCHANGED <<workspaceFolders, document>>

CheckDomain ==
    /\ pc = "idle"
    /\ \E domain \in Domains :
         result' = [op |-> "checkDomainExists", input |-> domain,
                    exists |-> checkDomainExists(workspaceFolders, domain)]
    /\ pc' = "done"
    /\ UNCHANGED <<workspaceFolders, document>>

\* the caller takes the value; the next request may start
Return ==
    /\ pc = "done"
    /\ pc' = "idle"
    /\ result' = NoResult
    /\ UNCHANGED <<workspaceFolders, document>>

Next == AddFolder \/ Resolve \/ CheckDomain \/ Return

Spec == Init /\ [][Next]_vars

(***************************************************************************)
(* The specification of all tokens: resolveVintageStoryPath on every       *)
(* string of at most MaxTokenLen characters, in a workspace of one folder. *)
(***************************************************************************)
TokenChars == {"f", "x", ":", "/", "_"}
AllTokens == StringsUpTo(TokenChars, MaxTokenLen)

OneFolderWorkspaces ==
    {<<>>} \cup {<<[name |-> n, readable |-> TRUE, assets |-> t, children |-> <<>>]>> :
                   n \in FolderNames, t \in Trees}

InitTokens ==
    /\ workspaceFolders \in OneFolderWorkspaces
    /\ document = EmptyText
    /\ pc = "idle"
    /\ result = NoResult

ResolveAny ==
    /\ pc = "idle"
    /\ \E pathStr \in AllTokens :
         result' = [op |-> "resolveVintageStoryPath", input |-> pathStr,
                    value |-> resolveVintageStoryPath(workspaceFolders, pathStr)]
    /\ pc' = "done"
    /\ UNCHANGED <<workspaceFolders, document>>

NextTokens == ResolveAny \/ Return

SpecTokens == InitTokens /\ [][NextTokens]_vars

(***************************************************************************)
(* The specification of the editor: a document open over a workspace, and  *)
(* hover and definition requests at any offset of it.                      *)
(***************************************************************************)
FileKey == <<"f", "i", "l", "e">>
PathKey == <<"p", "a", "t", "h">>
Prop(key, val) == [key |-> key, val |-> val]

PointerChars == {"/", "0", "1", "k"}
Pointers == StringsUpTo(PointerChars, MaxPointerLen)

K == <<"k">>
\* the texts the target assets/f/x may hold
TargetTexts ==
    {EmptyText,
     JString(K),
     JArray(<<JObject(<<Prop(K, JString(<<"v">>))>>)>>),
     JObject(<<Prop(K, JArray(<<JNumber>>)), Prop(<<"1">>, NoValue)>>),
     JArray(<<JArray(<<JObject(<<Prop(K, NoValue)>>)>>), JNumber>>)}

EditorWorkspaces ==
    {<<>>} \cup {<<[name |-> <<"f">>, readable |-> TRUE, assets |-> t, children |-> <<>>]>> :
                   t \in {NoAssets, DomainDir} \cup {WithFile(text) : text \in TargetTexts}}

GoodToken == <<"f", ":", "x">>
SomePointer == <<"0", "/", "k">>

Documents ==
    {JObject(<<Prop(FileKey, JString(GoodToken)), Prop(PathKey, JString(p))>>) :
        p \in Pointers}
    \cup {JObject(<<Prop(FileKey, JString(t)), Prop(PathKey, JString(SomePointer))>>) :
            t \in Tokens}
    \cup {JObject(<<Prop(<<"k">>, JString(t))>>) : t \in Tokens}
    \cup {EmptyText,
          JString(GoodToken),
          JArray(<<JString(GoodToken), JNumber>>),
          JObject(<<Prop(PathKey, JString(SomePointer))>>),
          JObject(<<Prop(PathKey, JString(SomePointer)), Prop(FileKey, JString(GoodToken))>>),
          JObject(<<Prop(FileKey, JNumber), Prop(PathKey, JString(SomePointer))>>),
          JObject(<<Prop(FileKey, JNumber), Prop(FileKey, JString(GoodToken)),
                    Prop(PathKey, JString(SomePointer))>>),
          JObject(<<Prop(FileKey, NoValue), Prop(PathKey, JString(SomePointer))>>),
          JObject(<<Prop(FileKey, JString(GoodToken)), Prop(PathKey, JNumber)>>),
          JObject(<<Prop(FileKey, JString(GoodToken)), Prop(PathKey, NoValue)>>),
          JObject(<<Prop(K, JObject(<<Prop(FileKey, JString(GoodToken))>>)),
                    Prop(PathKey, JString(SomePointer))>>)}

\* document.offsetAt(position): any offset of the text
Offsets(text) == 0..TextLen(text)

InitEditor ==
    /\ workspaceFolders \in EditorWorkspaces
    /\ document \in Documents
    /\ pc = "idle"
    /\ result = NoResult

HoverRequest ==
    /\ pc = "idle"
    /\ \E offset \in Offsets(document) :
         result' = [op |-> "provideHover", input |-> offset,
                    value |-> provideHover(workspaceFolders, document, offset)]
    /\ pc' = "done"
    /\ UNCHANGED <<workspaceFolders, document>>

DefinitionRequest ==
    /\ pc = "idle"
    /\ \E offset \in Offsets(document) :
         result' = [op |-> "provideDefinition", input |-> offset,
                    value |-> provideDefinition(workspaceFolders, document, offset)]
    /\ pc' = "done"
    /\ UNCHANGED <<workspaceFolders, document>>

NextEditor == HoverRequest \/ DefinitionRequest \/ Return

SpecEditor == InitEditor /\ [][NextEditor]_vars

(***************************************************************************)
(* Claims about the resolver.                                              *)
(***************************************************************************)
Resolved == pc = "done" /\ result.op = "resolveVintageStoryPath"
Checked == pc = "done" /\ result.op = "checkDomainExists"

\* <dir>/assets/<domain> is there
ContainsDomain(assets, domain) ==
    IF domain = <<>> THEN <<>> \in DOMAIN assets ELSE << domain >> \in DOMAIN assets

\* <dir>/assets/<domain>/<relativePath> is there
ContainsPath(assets, domain, relativePath) ==
    ExistsSync(assets, PathJoin(domain, relativePath))

\* C1: resolveVintageStoryPath returns absent, and throws nothing, for every
\* token whose number of ':' is not exactly 1, whatever the workspace holds.
C1_MalformedTokenAbsent ==
    (Resolved /\ CountChar(result.input, ":") /= 1) => result.value = Undefined

\* a token of three parts whose first two parts alone resolve
C1_Witness ==
    /\ Resolved
    /\ CountChar(result.input, ":") = 2
    /\ LET parts == Split(result.input, ":")
       IN  resolveVintageStoryPath(workspaceFolders, parts[1] \o <<":">> \o parts[2])
             /= Undefined
    /\ result.value = Undefined

\* the directories of the workspace: <<i, 0>> is folder i, <<i, j>> its j-th
\* entry on disk
Directories(folders) ==
    {d \in (1..Len(folders)) \X (0..MaxDirs) : d[2] <= Len(folders[d[1]].children)}

DirName(folders, d) ==
    IF d[2] = 0 THEN folders[d[1]].name ELSE folders[d[1]].children[d[2]].name

DirAssets(folders, d) ==
    IF d[2] = 0 THEN folders[d[1]].assets ELSE folders[d[1]].children[d[2]].assets

\* a workspace folder, or an entry that is a directory itself
IsDirectory(folders, d) ==
    d[2] = 0 \/ folders[d[1]].children[d[2]].type = "Directory"

\* the folder's listing reports the directory
IsListed(folders, d) == d[2] = 0 \/ folders[d[1]].readable

\* C2 as stated: checkDomainExists is true exactly when some open folder, or
\* some immediate subdirectory of one, has a matching name and itself
\* contains assets/<domain>.
C2_AsStated ==
    Checked =>
        (result.exists <=>
            \E d \in Directories(workspaceFolders) :
                /\ IsDirectory(workspaceFolders, d)
                /\ isMatchingFolder(DirName(workspaceFolders, d), result.input)
                /\ ContainsDomain(DirAssets(workspaceFolders, d), result.input))

\* C2, amended: the same, over the open folders and the immediate
\* subdirectories that the folder's directory listing reports (a folder
\* whose listing cannot be read counts with its own name only).
C2_DomainExistsIffListedMatch ==
    Checked =>
        (result.exists <=>
            \E d \in Directories(workspaceFolders) :
                /\ IsDirectory(workspaceFolders, d)
                /\ IsListed(workspaceFolders, d)
                /\ isMatchingFolder(DirName(workspaceFolders, d), result.input)
                /\ ContainsDomain(DirAssets(workspaceFolders, d), result.input))

\* a folder whose name matches but which lacks assets/<domain>: false
C2_Witness ==
    /\ Checked
    /\ result.exists = FALSE
    /\ \E d \in Directories(workspaceFolders) :
         /\ IsDirectory(workspaceFolders, d)
         /\ IsListed(workspaceFolders, d)
         /\ isMatchingFolder(DirName(workspaceFolders, d), result.input)
         /\ ~ContainsDomain(DirAssets(workspaceFolders, d), result.input)

\* the directories resolution may answer with: listed, matching the domain,
\* holding the path
Candidates(folders, domain, relativePath) ==
    {d \in Directories(folders) :
        /\ IsDirectory(folders, d)
        /\ IsListed(folders, d)
        /\ isMatchingFolder(DirName(folders, d), domain)
        /\ ContainsPath(DirAssets(folders, d), domain, relativePath)}

\* the order of the loop: folder by folder, a folder before its entries
Precedes(a, b) == a[1] < b[1] \/ (a[1] = b[1] /\ a[2] < b[2])

\* the order of two passes: every folder before every entry
PrecedesTwoPasses(a, b) ==
    \/ a[2] = 0 /\ b[2] > 0
    \/ a[2] = 0 /\ b[2] = 0 /\ a[1] < b[1]
    \/ a[2] > 0 /\ b[2] > 0 /\ Precedes(a, b)

TwoParts == Resolved /\ Len(Split(result.input, ":")) = 2
Domain == Split(result.input, ":")[1]
RelativePath == Split(result.input, ":")[2]
Answer == <<result.value.folder, result.value.child>>

\* C3 as stated: own-name matches of every folder come before any
\* subdirectory match, so when some folder's own name matches and holds the
\* path, resolution answers with a folder, not with a subdirectory.
C3_AsStated ==
    (TwoParts /\ \E d \in Candidates(workspaceFolders, Domain, RelativePath) : d[2] = 0)
        => (result.value /= Undefined /\ result.value.child = 0)

\* C3, amended: the folders are tried in the order listed, and each folder's
\* own name before its listed subdirectories, before the next folder is
\* tried: the answer precedes every other candidate in that order, so an
\* earlier folder's matching subdirectory wins over a later folder's own name.
C3_FolderByFolderOrder ==
    (TwoParts /\ result.value /= Undefined) =>
        \A d \in Candidates(workspaceFolders, Domain, RelativePath) :
            d = Answer \/ Precedes(Answer, d)

\* an earlier folder's subdirectory answers although a later folder's own
\* name matches and holds the path
C3_Witness ==
    /\ TwoParts
    /\ result.value /= Undefined
    /\ result.value.child > 0
    /\ \E d \in Candidates(workspaceFolders, Domain, RelativePath) :
         d[2] = 0 /\ d[1] > result.value.folder

\* the matching directories that hold assets/<domain>
Owners(folders, domain) ==
    {d \in Directories(folders) :
        /\ IsDirectory(folders, d)
        /\ IsListed(folders, d)
        /\ isMatchingFolder(DirName(folders, d), domain)
        /\ ContainsDomain(DirAssets(folders, d), domain)}

\* d is the owner directory: the first of the owners, in the order of the
\* loop and in the order of two passes alike
IsOwner(folders, domain, d) ==
    /\ d \in Owners(folders, domain)
    /\ \A e \in Owners(folders, domain) :
         e = d \/ (Precedes(d, e) /\ PrecedesTwoPasses(d, e))

\* C4 as stated: one candidate is tested; when the owner directory lacks
\* the relative path the result is absent, whatever later directories hold.
C4_AsStated ==
    (TwoParts /\ \E d \in Directories(workspaceFolders) :
                    /\ IsOwner(workspaceFolders, Domain, d)
                    /\ ~ContainsPath(DirAssets(workspaceFolders, d), Domain, RelativePath))
        => result.value = Undefined

\* C4, amended: every listed matching directory is a candidate, tested for
\* the whole path <dir>/assets/<domain>/<relativePath>; the result is one of
\* those that hold it, with that path, and it is absent only when none does.
\* A directory that holds assets/<domain> without the relative path is
\* passed over.
C4_SearchesEveryCandidate ==
    TwoParts =>
        /\ result.value = Undefined
             <=> Candidates(workspaceFolders, Domain, RelativePath) = {}
        /\ result.value /= Undefined =>
             /\ Answer \in Candidates(workspaceFolders, Domain, RelativePath)
             /\ result.value = Uri(Answer[1], Answer[2], PathJoin(Domain, RelativePath))

\* the owner directory lacks the path, a later directory answers
C4_Witness ==
    /\ TwoParts
    /\ result.value /= Undefined
    /\ \E d \in Directories(workspaceFolders) :
         /\ IsOwner(workspaceFolders, Domain, d)
         /\ ~ContainsPath(DirAssets(workspaceFolders, d), Domain, RelativePath)
         /\ Precedes(d, Answer)

\* C5 as stated: every path resolution returns is a regular file; a
\* candidate that is a directory (an empty relativePath, say) yields absent.
C5_AsStated ==
    (Resolved /\ result.value /= Undefined) =>
        DirAssets(workspaceFolders, Answer)[result.value.segs].kind = "file"

(***************************************************************************)
(* Claims about the editor's providers.                                    *)
(***************************************************************************)
Requested(op) == pc = "done" /\ result.op = op

\* What a request at the offset result.input of the document is about:
\*   onString        the innermost node at the offset is a string
\*   string          that string
\*   inProperty      the string is the key or the value of a property
\*   key             the property's key
\*   hasStringValue  the property has a value and it is a string
\*   value           that value
\*   noSiblingFile   the enclosing object has no "file" property with a
\*                   string value
\*   hasTargetToken  a token names the target: the property's own value for
\*                   "file", the value of the first sibling "file" property
\*                   for "path"
\*   targetMissing   nothing is at the path the token names, in any
\*                   candidate directory
\*   target          the path the token resolves to
\*   targetIsFile    the target is a regular file
\*   tree            the tree of the target file's text, if it has one
Click ==
    LET docTree == ParseTree(document)
        hit == IF document = EmptyText THEN NotFound
               ELSE FindNodeAtOffset(docTree, <<>>, result.input)
        onString == hit /= NotFound /\ NodeAt(docTree, hit.path).type = "string"
        inProperty ==
            /\ onString
            /\ hit.path /= <<>>
            /\ NodeAt(docTree, Parent(hit.path)).type = "property"
        property == NodeAt(docTree, Parent(hit.path))
        key == property.children[1].value
        hasStringValue ==
            /\ inProperty
            /\ Len(property.children) = 2
            /\ property.children[2].type = "string"
        enclosing == NodeAt(docTree, Parent(Parent(hit.path)))
        isFileString(p) ==
            /\ p.children[1].value = FileKey
            /\ Len(p.children) = 2
            /\ p.children[2].type = "string"
        sibling == findProperty(enclosing, FileKey)
        hasTargetToken ==
            /\ hasStringValue
            /\ \/ key = FileKey
               \/ key = PathKey /\ sibling /= Undefined /\ isFileString(sibling)
        token == IF key = FileKey THEN property.children[2].value
                 ELSE sibling.children[2].value
        parts == Split(token, ":")
        targetMissing ==
            /\ hasTargetToken
            /\ \/ Len(parts) /= 2
               \/ Candidates(workspaceFolders, parts[1], parts[2]) = {}
        target == resolveVintageStoryPath(workspaceFolders, token)
        text == OpenTextDocument(workspaceFolders, target)
        targetIsFile ==
            /\ hasTargetToken
            /\ ~targetMissing
            /\ target /= Undefined
            /\ text /= Thrown
    IN  [onString       |-> onString,
         string         |-> IF onString THEN NodeAt(docTree, hit.path).value ELSE <<>>,
         inProperty     |-> inProperty,
         key            |-> IF inProperty THEN key ELSE <<>>,
         hasStringValue |-> hasStringValue,
         value          |-> IF hasStringValue THEN property.children[2].value ELSE <<>>,
         noSiblingFile  |-> /\ inProperty
                            /\ \A i \in 1..Len(enclosing.children) :
                                 ~isFileString(enclosing.children[i]),
         hasTargetToken |-> hasTargetToken,
         targetMissing  |-> targetMissing,
         target         |-> IF hasTargetToken THEN target ELSE Undefined,
         targetIsFile   |-> targetIsFile,
         tree           |-> IF targetIsFile THEN ParseTree(text) ELSE Undefined]

\* definition on a "path" property whose target was resolved and parsed
PathRequest(c) ==
    /\ Requested("provideDefinition")
    /\ c.hasTargetToken
    /\ c.key = PathKey
    /\ c.targetIsFile
    /\ c.tree /= Undefined

\* the segments of the pointer, and the node the first n of them lead to
Parts(c) == PointerParts(c.value)
Reached(c, n) == Walk(c.tree, SubSeq(Parts(c), 1, n))

\* segment n is matched as an array index, as an object key, or fails
MatchedAsIndex(c, n) ==
    LET node == Reached(c, n - 1)
        index == ParseInt(Parts(c)[n])
    IN  /\ node /= Undefined
        /\ node.type = "array"
        /\ index /= NaN
        /\ index.value < Len(node.children)
MatchedAsKey(c, n) ==
    LET node == Reached(c, n - 1)
    IN  /\ node /= Undefined
        /\ node.type = "object"
        /\ \E i \in 1..Len(node.children) :
             node.children[i].children[1].value = Parts(c)[n]
FailsAt(c, n) ==
    LET node == Reached(c, n - 1)
        index == ParseInt(Parts(c)[n])
    IN  /\ node /= Undefined
        /\ \/ /\ node.type = "array"
              /\ index = NaN \/ index.value >= Len(node.children)
           \/ /\ node.type = "object"
              /\ \A i \in 1..Len(node.children) :
                   node.children[i].children[1].value /= Parts(c)[n]
           \/ node.type \notin {"array", "object"}

\* the key node of the first property of `object` with the key
KeyNode(object, key) ==
    LET i == CHOOSE i \in 1..Len(object.children) :
                 /\ object.children[i].children[1].value = key
                 /\ \A k \in 1..(i - 1) : object.children[k].children[1].value /= key
    IN  object.children[i].children[1]

Span(uri, node) == Location(uri, node.offset, node.offset + node.length)

\* C6: when the walk consumes every segment and the last one matched a
\* property of an object node, the location spans the property's key node
\* (its offset and length), not its value node.
C6_LastKeySpansKeyNode ==
    LET c == Click
        last == Len(Parts(c))
    IN  (PathRequest(c) /\ last > 0 /\ MatchedAsKey(c, last)) =>
            result.value = Span(c.target, KeyNode(Reached(c, last - 1), Parts(c)[last]))

\* the last segment matched a key that has a value node elsewhere
C6_Witness ==
    LET c == Click
        last == Len(Parts(c))
    IN  /\ PathRequest(c)
        /\ last > 0
        /\ MatchedAsKey(c, last)
        /\ Len(findProperty(Reached(c, last - 1), Parts(c)[last]).children) = 2
        /\ result.value.kind = "location"
        /\ result.value.start > 0

TargetHasNoTree(c) == c.targetIsFile /\ c.tree = Undefined

PercentChar(code) == CHOOSE c \in DOMAIN PercentCodes : PercentCodes[c] = code

RECURSIVE DecodeURIComponent(_)
DecodeURIComponent(s) ==
    IF s = <<>> THEN <<>>
    ELSE IF Head(s) = "%"
         THEN <<PercentChar(SubSeq(s, 1, 3))>> \o DecodeURIComponent(SubSeq(s, 4, Len(s)))
         ELSE <<Head(s)>> \o DecodeURIComponent(Tail(s))

RECURSIVE JsonUnescape(_)
JsonUnescape(s) ==
    IF s = <<>> THEN <<>>
    ELSE IF Head(s) = "\\"
         THEN <<s[2]>> \o JsonUnescape(SubSeq(s, 3, Len(s)))
         ELSE <<Head(s)>> \o JsonUnescape(Tail(s))

\* the arguments of a text of the form ["..."]
JsonParseArgs(s) ==
    IF /\ Len(s) >= 4
       /\ SubSeq(s, 1, 2) = <<"[", "\"">>
       /\ SubSeq(s, Len(s) - 1, Len(s)) = <<"\"", "]">>
    THEN <<JsonUnescape(SubSeq(s, 3, Len(s) - 2))>>
    ELSE <<>>

\* the string at the cursor splits on ':' into exactly two parts
OnTwoParts(c) == c.onString /\ Len(Split(c.string, ":")) = 2
HoverDomain(c) == Split(c.string, ":")[1]

\* C9: hover gives a download notice exactly when the innermost node at the
\* cursor is a string of exactly two ':'-separated parts whose first part
\* fails the domain existence check; the notice's command link targets the
\* download command with that domain as its one argument; in every other
\* case hover gives nothing.
C9_HoverNoticeIffUnknownDomain ==
    Requested("provideHover") =>
        LET c == Click
        IN  IF OnTwoParts(c) /\ ~checkDomainExists(workspaceFolders, HoverDomain(c))
            THEN /\ result.value.kind = "hover"
                 /\ result.value.mod = HoverDomain(c)
                 /\ result.value.command = DownloadCommand
                 /\ JsonParseArgs(DecodeURIComponent(result.value.args)) = <<HoverDomain(c)>>
            ELSE result.value = Undefined

\* a notice for a domain with a character the link escapes
C9_Witness ==
    LET c == Click
    IN  /\ Requested("provideHover")
        /\ OnTwoParts(c)
        /\ workspaceFolders /= <<>>
        /\ Includes(HoverDomain(c), "/")
        /\ result.value.kind = "hover"

\* C10: a segment matched as an object key leaves the walk on a key node, a
\* scalar, so a pointer with a further segment after it fails and gives the
\* fallback to the top of the file; a location other than the fallback and
\* the root's own span is only given for pointers of array indexes followed
\* by at most one object key.
C10_KeyEndsTheWalk ==
    LET c == Click
        last == Len(Parts(c))
    IN  PathRequest(c) =>
            /\ (\E n \in 1..(last - 1) : MatchedAsKey(c, n))
                 => result.value = TopOfFile(c.target)
            /\ (result.value /= TopOfFile(c.target) /\ result.value /= Span(c.target, c.tree))
                 => /\ last > 0
                    /\ \A n \in 1..(last - 1) : MatchedAsIndex(c, n)
                    /\ MatchedAsIndex(c, last) \/ MatchedAsKey(c, last)

\* a key whose value is an array, and a further segment that would index it
C10_Witness ==
    LET c == Click
    IN  /\ PathRequest(c)
        /\ Len(Parts(c)) = 2
        /\ MatchedAsKey(c, 1)
        /\ Len(findProperty(Reached(c, 0), Parts(c)[1]).children) = 2
        /\ findProperty(Reached(c, 0), Parts(c)[1]).children[2].type = "array"
        /\ ParseInt(Parts(c)[2]) /= NaN
        /\ result.value = TopOfFile(c.target)

====
